---- MODULE Spec2Model ----
(***************************************************************************)
(* Model of govice: the leveled JSON logger (log.go), the typed Error and  *)
(* ReplyWithError (log.go), and the request middlewares WithLogContext and *)
(* WithLog (config.go).                                                    *)
(*                                                                         *)
(* A byte buffer is a sequence of tokens; a token is a string holding one  *)
(* or more bytes of the output: "{", "}", ",", "\n" or one "key":value     *)
(* pair, so that records are built and spliced as the code builds them.    *)
(***************************************************************************)
EXTENDS Integers, Sequences, FiniteSets, TLC

VARIABLES
    defaultLogLevel,  \* package variable defaultLogLevel
    clock,            \* the wall clock read by time.Now(), in ticks
    logLevel,         \* Logger.logLevel
    context,          \* Logger.context
    out,              \* the bytes written to the sink Logger.out
    mutex,            \* Logger.mutex: 0 when free, else the thread holding it
    call,             \* the last call made on the sequential API, with the sink before it
    tpc,              \* per thread: where it is inside Logger.log
    tk,               \* per thread: the emissions it has completed
    tbuf,             \* per thread: the bytes of its record not yet written to the sink
    reply,            \* the last call on an error value: the error, the response, the outcome
    prev,             \* the call made on the second of two error values
    pc,               \* where the request is in the middleware chain
    chain,            \* the middlewares the request's route is wrapped in
    req,              \* the request: the correlator header as it arrived and as it is now
    stored,           \* whether the request's context holds the Logger under LoggerContextKey
    tmpl,             \* the context given to WithLogContext
    rw,               \* the response writer the server gave: what went out on the wire
    lw,               \* LoggableResponseWriter.Status
    start,            \* WithLog's now
    hops,             \* the calls the handler has made
    lastTrans,        \* what newTransactionID last returned
    uuids,            \* the identifiers generated so far
    loggers,          \* the Loggers constructed so far: the logLevel of each
    heap,             \* the LogContext values allocated, by address
    rctx,             \* per request: the address of its context, 0 before Clone
    rpc,              \* per request: where it is inside InitContext
    ph,               \* the handler Pipeline returned, then what is left of it to run
    ptrace,           \* the middlewares and endpoint that have run, in order
    lout,             \* Logger.out: which sink the Logger writes to
    out2,             \* the bytes written to the sink given to SetWriter
    spc               \* where the goroutine calling SetWriter is

loggerVars == <<logLevel, context, out, mutex>>
threadVars == <<tpc, tk, tbuf>>
errVars == <<reply, prev>>
reqVars == <<pc, chain, req, stored, tmpl, rw, lw, start, hops, lastTrans, uuids>>
pipeVars == <<ph, ptrace>>
sinkVars == <<lout, out2, spc>>
extVars == <<loggers, heap, rctx, rpc, ph, ptrace, lout, out2, spc>>
vars ==
    <<defaultLogLevel, clock, logLevel, context, out, mutex, call, tpc, tk, tbuf, reply,
      prev, pc, chain, req, stored, tmpl, rw, lw, start, hops, lastTrans, uuids, loggers,
      heap, rctx, rpc, ph, ptrace, lout, out2, spc>>

----------------------------------------------------------------------------
(* Levels                                                                  *)

debugLevel == 0
infoLevel == 1
warnLevel == 2
errorLevel == 3
fatalLevel == 4

Levels == debugLevel..fatalLevel

LogLevelNames == <<"DEBUG", "INFO", "WARN", "ERROR", "FATAL">>

\* strings.ToUpper on the level names the model passes in
ToUpper(s) ==
    CASE s \in {"debug", "Debug", "DEBUG"} -> "DEBUG"
      [] s \in {"info", "inFo", "INFO"} -> "INFO"
      [] s \in {"warn", "wArN", "WARN"} -> "WARN"
      [] s \in {"error", "eRRoR", "ERROR"} -> "ERROR"
      [] s \in {"fatal", "fatAL", "FATAL"} -> "FATAL"
      [] s = "invalid" -> "INVALID"
      [] OTHER -> s

\* the level names given to SetLevel and SetDefaultLogLevel
LevelNameInputs ==
    {"", "invalid", "Debug", "INFO", "inFo", "wArN", "eRRoR", "fatAL", "DEBUG", "WARN",
     "ERROR", "FATAL"}

levelByNameDefaultFallback(levelName) ==
    LET up == ToUpper(levelName)
        hits == {i \in 1..Len(LogLevelNames) : LogLevelNames[i] = up}
    IN  IF hits # {} THEN (CHOOSE i \in hits : \A j \in hits : i <= j) - 1
        ELSE defaultLogLevel

levelByNameCaseSensitive(levelName) ==
    LET hits == {i \in 1..Len(LogLevelNames) : LogLevelNames[i] = levelName}
    IN  IF hits # {} THEN (CHOOSE i \in hits : \A j \in hits : i <= j) - 1
        ELSE infoLevel

levelByName(levelName) ==
    LET up == ToUpper(levelName)
        hits == {i \in 1..Len(LogLevelNames) : LogLevelNames[i] = up}
    IN  IF hits # {} THEN (CHOOSE i \in hits : \A j \in hits : i <= j) - 1
        ELSE infoLevel

----------------------------------------------------------------------------
(* Contexts and their JSON encoding                                        *)

NilContext == [kind |-> "nil"]

NewLogContext(trans, corr, op, svc, alarm) ==
    [kind |-> "LogContext", trans |-> trans, corr |-> corr, op |-> op, svc |-> svc,
     comp |-> "", user |-> "", realm |-> "", alarm |-> alarm]

EmptyLogContext == NewLogContext("", "", "", "", "")

NewReqLogContext(method, path, remoteaddr) ==
    [kind |-> "ReqLogContext", method |-> method, path |-> path,
     remoteaddr |-> remoteaddr]

NewRespLogContext(status, latency, location) ==
    [kind |-> "RespLogContext", status |-> status, latency |-> latency,
     location |-> location]

\* a value encoding/json cannot encode (a channel)
ChanValue == [kind |-> "chan"]

\* json.Marshal of a string (the model's strings need no escaping)
JSONString(s) == "\"" \o s \o "\""

\* json.Marshal of an int
JSONInt(n) == ToString(n)

\* one "key":value pair, as bytes
Pair(key, jsonValue) == "\"" \o key \o "\":" \o jsonValue

\* the fields of a struct in declaration order: <<key, encoded value, is empty>>
StructFields(v) ==
    CASE v.kind = "LogContext" ->
            << <<"trans", JSONString(v.trans), v.trans = "">>,
               <<"corr", JSONString(v.corr), v.corr = "">>,
               <<"op", JSONString(v.op), v.op = "">>,
               <<"svc", JSONString(v.svc), v.svc = "">>,
               <<"comp", JSONString(v.comp), v.comp = "">>,
               <<"user", JSONString(v.user), v.user = "">>,
               <<"realm", JSONString(v.realm), v.realm = "">>,
               <<"alarm", JSONString(v.alarm), v.alarm = "">> >>
      [] v.kind = "ReqLogContext" ->
            << <<"method", JSONString(v.method), v.method = "">>,
               <<"path", JSONString(v.path), v.path = "">>,
               <<"remoteaddr", JSONString(v.remoteaddr), v.remoteaddr = "">> >>
      [] v.kind = "RespLogContext" ->
            << <<"status", JSONInt(v.status), v.status = 0>>,
               <<"latency", JSONInt(v.latency), v.latency = 0>>,
               <<"location", JSONString(v.location), v.location = "">> >>
      [] OTHER -> <<>>

RECURSIVE JoinPairs(_)
\* the omitempty fields that are not empty, comma separated
JoinPairs(fields) ==
    IF fields = <<>> THEN <<>>
    ELSE LET f == Head(fields)
             rest == JoinPairs(Tail(fields))
         IN  IF f[3] THEN rest
             ELSE IF rest = <<>> THEN <<Pair(f[1], f[2])>>
             ELSE <<Pair(f[1], f[2]), ",">> \o rest

\* json.Marshal of a context value: the error flag and the bytes
MarshalContext(v) ==
    IF v.kind = "chan" THEN [err |-> TRUE, b |-> <<>>]
    ELSE [err |-> FALSE, b |-> <<"{">> \o JoinPairs(StructFields(v)) \o <<"}">>]

\* the clock's ticks in one millisecond
TicksPerMs == 2

\* time.Format(RFC3339Milli): millisecond precision
FormatTime(t) == "t" \o ToString(t \div TicksPerMs)

----------------------------------------------------------------------------
(* Record composition                                                      *)

writeField(key, jsonValue) == <<Pair(key, jsonValue)>>

writeObjectEmptyCounts(v) ==
    IF v.kind = "nil" THEN [b |-> <<>>, length |-> 0]
    ELSE LET m == MarshalContext(v)
             length == Len(m.b)
         IN  IF ~m.err /\ length >= 2 /\ m.b[1] = "{" /\ m.b[length] = "}"
             THEN [b |-> SubSeq(m.b, 2, length - 1), length |-> length]
             ELSE [b |-> <<>>, length |-> 0]

\* the bytes written and the length returned
writeObject(v) ==
    IF v.kind = "nil" THEN [b |-> <<>>, length |-> 0]
    ELSE LET m == MarshalContext(v)
             length == Len(m.b)
         IN  IF ~m.err /\ length > 2 /\ m.b[1] = "{" /\ m.b[length] = "}"
             THEN [b |-> SubSeq(m.b, 2, length - 1), length |-> length - 2]
             ELSE [b |-> <<>>, length |-> 0]

writeDoc(time, level, ctx, customContext, message) ==
    LET o1 == writeObject(ctx)
        o2 == writeObject(customContext)
    IN  <<"{">> \o writeField("time", JSONString(FormatTime(time))) \o <<",">>
        \o writeField("lvl", JSONString(level)) \o <<",">>
        \o o1.b \o (IF o1.length > 0 THEN <<",">> ELSE <<>>)
        \o o2.b \o (IF o2.length > 0 THEN <<",">> ELSE <<>>)
        \o writeField("msg", JSONString(message)) \o <<"}", "\n">>

----------------------------------------------------------------------------
(* Reading the sink back                                                   *)

RECURSIVE SplitLines(_, _)
\* the complete lines of a buffer, each with its newline, then the unfinished rest
SplitLines(buf, cur) ==
    IF buf = <<>> THEN [lines |-> <<>>, rest |-> cur]
    ELSE IF Head(buf) = "\n"
         THEN LET r == SplitLines(Tail(buf), <<>>)
              IN  [lines |-> <<Append(cur, "\n")>> \o r.lines, rest |-> r.rest]
         ELSE SplitLines(Tail(buf), Append(cur, Head(buf)))

Records(buf) == SplitLines(buf, <<>>).lines
Unfinished(buf) == SplitLines(buf, <<>>).rest

Has(rec, token) == \E i \in 1..Len(rec) : rec[i] = token
HasKey(rec, key, jsonValue) == Has(rec, Pair(key, jsonValue))

----------------------------------------------------------------------------
(* Errors and HTTP responses                                               *)

StatusOK == 200
StatusBadRequest == 400
StatusInternalServerError == 500

HeaderNames == {"Content-Type", "Unica-Correlator", "Location"}
NoHeaders == [h \in HeaderNames |-> ""]

\* httptest.NewRecorder(): what has been sent on the wire so far
\* (calls and writes count the WriteHeader and Write calls made on it)
NewRecorder ==
    [code |-> StatusOK, header |-> NoHeaders, body |-> <<>>, wroteHeader |-> FALSE,
     calls |-> 0, writes |-> 0]

\* ResponseWriter.Header().Set
rwSetHeader(w, name, value) == [w EXCEPT !.header[name] = value]

\* ResponseWriter.WriteHeader: the first status sent is the status of the response
rwWriteHeader(w, code) ==
    IF w.wroteHeader THEN [w EXCEPT !.calls = @ + 1]
    ELSE [w EXCEPT !.code = code, !.wroteHeader = TRUE, !.calls = @ + 1]

\* ResponseWriter.Write: sends the status 200 first when none was sent
rwWrite(w, data) ==
    LET w1 == IF w.wroteHeader THEN w
              ELSE [w EXCEPT !.code = StatusOK, !.wroteHeader = TRUE]
    IN  [w1 EXCEPT !.body = @ \o data, !.writes = @ + 1]

\* a *govice.Error
NewError(message, status, alarm, code, description) ==
    [kind |-> "Error", Message |-> message, Status |-> status, Alarm |-> alarm,
     Code |-> code, Description |-> description]

\* an error of another type, as made by errors.New
StdError(message) == [kind |-> "error", Message |-> message]

NewServerErrorWithStatus502(message) == NewError(message, 502, "", "server_error", "")

NewServerError(message) == NewError(message, StatusInternalServerError, "", "server_error", "")

marshalErrorWithMessage(e) ==
    <<"{", Pair("error", JSONString(e.Code)), ",", Pair("message", JSONString(e.Message)),
      "}">>

\* json.Marshal of an Error, by its struct tags
marshalError(e) ==
    <<"{", Pair("error", JSONString(e.Code))>>
    \o (IF e.Description # ""
        THEN <<",", Pair("error_description", JSONString(e.Description))>>
        ELSE <<>>)
    \o <<"}">>

\* Error.Response (json.Marshal of an Error returns no error)
errorResponse(e, w) ==
    LET data == marshalError(e)
        w1 == rwSetHeader(w, "Content-Type", "application/json")
        w2 == rwWriteHeader(w1, e.Status)
    IN  rwWrite(w2, data)

\* Error.GetResponse: the http.Response it builds
errorGetResponse(e) ==
    [code |-> e.Status,
     header |-> [NoHeaders EXCEPT !["Content-Type"] = "application/json"],
     body |-> marshalError(e), wroteHeader |-> TRUE, calls |-> 0, writes |-> 0]

NoReply == [op |-> "none"]
ErrIdle == reply = NoReply /\ prev = NoReply

\* no request is being served
ReqIdle ==
    /\ pc = "idle"
    /\ chain = <<>>
    /\ req = [inbound |-> <<>>, header |-> <<>>]
    /\ stored = FALSE
    /\ tmpl = EmptyLogContext
    /\ rw = NewRecorder
    /\ lw = StatusOK
    /\ start = 0
    /\ hops = 0
    /\ lastTrans = ""
    /\ uuids = 0

\* no second Logger is constructed and no context is shared between requests
LateIdle ==
    /\ ph = [kind |-> "none"]
    /\ ptrace = <<>>
    /\ lout = 1
    /\ out2 = <<>>
    /\ spc = "idle"

ExtIdle == loggers = <<>> /\ heap = <<>> /\ rctx = <<>> /\ rpc = <<>> /\ LateIdle

----------------------------------------------------------------------------
(* Logger                                                                  *)

belowLevelOffByOne(level, loggerLevel) == level <= loggerLevel

\* the level check of Logger.log: the record is dropped below the minimum level
belowLevel(level, loggerLevel) == level < loggerLevel

logFailsWhole(sink, loggerLevel, ctx, now, level, customContext, message) ==
    IF belowLevel(level, loggerLevel) \/ MarshalContext(ctx).err
       \/ MarshalContext(customContext).err
    THEN sink
    ELSE sink \o writeDoc(now, LogLevelNames[level + 1], ctx, customContext, message)

\* Logger.log run to completion by one thread: the sink after the call
log(sink, loggerLevel, ctx, now, level, customContext, message) ==
    IF belowLevel(level, loggerLevel) THEN sink
    ELSE sink \o writeDoc(now, LogLevelNames[level + 1], ctx, customContext, message)

\* the ten leveled methods
Methods ==
    {"Debug", "DebugC", "Info", "InfoC", "Warn", "WarnC", "Error", "ErrorC", "Fatal",
     "FatalC"}

methodLevel(m) ==
    CASE m \in {"Debug", "DebugC"} -> debugLevel
      [] m \in {"Info", "InfoC"} -> infoLevel
      [] m \in {"Warn", "WarnC"} -> warnLevel
      [] m \in {"Error", "ErrorC"} -> errorLevel
      [] OTHER -> fatalLevel

methodTakesContext(m) == m \in {"DebugC", "InfoC", "WarnC", "ErrorC", "FatalC"}

\* the records a run may hold in the sink
MaxOut == 2

\* the per-call contexts the sequential API is driven with
CallContexts == {NilContext, NewReqLogContext("GET", "/users", "")}

NoCall == [op |-> "none", level |-> 0, withContext |-> FALSE, pre |-> <<>>]

\* Logger.SetLevel
SetLevel(levelName) ==
    /\ logLevel' = levelByName(levelName)
    /\ call' = [op |-> "SetLevel", level |-> 0, withContext |-> FALSE, pre |-> out]
    /\ UNCHANGED <<extVars, defaultLogLevel, clock, context, out, mutex>>
    /\ UNCHANGED <<threadVars, errVars, reqVars>>

\* Logger.Debug .. Logger.FatalC
Emit(m, customContext) ==
    /\ Len(Records(out)) < MaxOut
    /\ methodTakesContext(m) \/ customContext = NilContext
    /\ out' = log(out, logLevel, context, clock, methodLevel(m), customContext, "hi")
    /\ call' = [op |-> m, level |-> methodLevel(m),
                withContext |-> customContext # NilContext, pre |-> out]
    /\ UNCHANGED <<extVars, defaultLogLevel, clock, logLevel, context, mutex>>
    /\ UNCHANGED <<threadVars, errVars, reqVars>>

\* the threads that share the Logger
NThreads == 2
Threads == 1..NThreads

\* the emissions each thread makes
KEmits == 2

ThreadsIdle ==
    /\ tpc = [t \in Threads |-> "start"]
    /\ tk = [t \in Threads |-> 0]
    /\ tbuf = [t \in Threads |-> <<>>]

InitLog ==
    /\ defaultLogLevel = infoLevel
    /\ clock = 0
    /\ logLevel = defaultLogLevel
    /\ context = NilContext
    /\ out = <<>>
    /\ mutex = 0
    /\ call = NoCall
    /\ ThreadsIdle
    /\ ReqIdle
    /\ ErrIdle
    /\ ExtIdle

NextLog ==
    \/ \E n \in LevelNameInputs : SetLevel(n)
    \/ \E m \in Methods, c \in CallContexts : Emit(m, c)

SpecLog == InitLog /\ [][NextLog]_vars

----------------------------------------------------------------------------
(* C1: a leveled emit call at level L on a Logger of minimum level M       *)
(* appends exactly one record, at level L, when L >= M, and leaves the     *)
(* sink as it was when L < M.                                              *)
EmitWrittenIffEnabled ==
    call.op \in Methods =>
        IF call.level >= logLevel
        THEN /\ Len(Records(out)) = Len(Records(call.pre)) + 1
             /\ Unfinished(out) = <<>>
             /\ SubSeq(out, 1, Len(call.pre)) = call.pre
             /\ HasKey(Records(out)[Len(Records(out))], "lvl",
                       JSONString(LogLevelNames[call.level + 1]))
        ELSE out = call.pre

\* both outcomes of C1 have happened, with a per-call context
EmitWrittenWitness ==
    /\ call.op = "WarnC" /\ call.withContext
    /\ logLevel = warnLevel
    /\ Len(Records(out)) = 2
    /\ Len(Records(call.pre)) = 1

EmitDroppedWitness ==
    /\ call.op = "DebugC" /\ call.withContext
    /\ logLevel = infoLevel
    /\ out = call.pre
    /\ Len(Records(out)) = 1

----------------------------------------------------------------------------
(* Concurrent emission: each thread runs Logger.log step by step.  The     *)
(* sink's Write copies the record a piece at a time, so whatever keeps two *)
(* writes apart is the Logger's mutex and nothing else.                    *)

threadMessage(t, k) == "m" \o ToString(t) \o "_" \o ToString(k)

lockFreeIgnored(m) == TRUE

\* sync.Mutex.Lock returns only when the mutex is free
lockFree(m) == m = 0

\* Logger.log, lines 114-123: the level check and the composition of the record
LogCompose(t) ==
    /\ tpc[t] = "start"
    /\ tk[t] < KEmits
    /\ IF belowLevel(infoLevel, logLevel)
       THEN /\ tk' = [tk EXCEPT ![t] = @ + 1]
            /\ UNCHANGED <<tpc, tbuf>>
       ELSE /\ tbuf' = [tbuf EXCEPT ![t] =
                            writeDoc(clock, LogLevelNames[infoLevel + 1], context,
                                     NilContext, threadMessage(t, tk[t] + 1))]
            /\ tpc' = [tpc EXCEPT ![t] = "lock"]
            /\ UNCHANGED tk
    /\ UNCHANGED <<extVars, defaultLogLevel, clock, logLevel, context, out, mutex, call, errVars, reqVars>>

\* Logger.log, line 124: l.mutex.Lock()
LogLock(t) ==
    /\ tpc[t] = "lock"
    /\ lockFree(mutex)
    /\ mutex' = t
    /\ tpc' = [tpc EXCEPT ![t] = "write"]
    /\ UNCHANGED <<extVars, defaultLogLevel, clock, logLevel, context, out, call, tk, tbuf, errVars, reqVars>>

\* the tokens one step of the sink's Write copies
ChunkLen == 4

Min(a, b) == IF a < b THEN a ELSE b

\* Logger.log, line 126: l.out.Write(bytes), one piece of the record per step
LogWrite(t) ==
    /\ tpc[t] = "write"
    /\ tbuf[t] # <<>>
    /\ LET n == Min(ChunkLen, Len(tbuf[t]))
       IN  /\ out' = out \o SubSeq(tbuf[t], 1, n)
           /\ tbuf' = [tbuf EXCEPT ![t] = SubSeq(@, n + 1, Len(@))]
    /\ UNCHANGED <<extVars, defaultLogLevel, clock, logLevel, context, mutex, call, tpc, tk, errVars, reqVars>>

LogUnlockKeepsMutex(t) ==
    /\ tpc[t] = "write"
    /\ tbuf[t] = <<>>
    /\ mutex' = mutex
    /\ tpc' = [tpc EXCEPT ![t] = "start"]
    /\ tk' = [tk EXCEPT ![t] = @ + 1]
    /\ UNCHANGED <<extVars, defaultLogLevel, clock, logLevel, context, out, call, tbuf, errVars, reqVars>>

\* Logger.log, line 125: the deferred l.mutex.Unlock(), then the return
LogUnlock(t) ==
    /\ tpc[t] = "write"
    /\ tbuf[t] = <<>>
    /\ mutex' = 0
    /\ tpc' = [tpc EXCEPT ![t] = "start"]
    /\ tk' = [tk EXCEPT ![t] = @ + 1]
    /\ UNCHANGED <<extVars, defaultLogLevel, clock, logLevel, context, out, call, tbuf, errVars, reqVars>>

InitConc ==
    /\ defaultLogLevel = infoLevel
    /\ clock = 0
    /\ logLevel = infoLevel
    /\ context = NewLogContext("txid", "", "op1", "", "")
    /\ out = <<>>
    /\ mutex = 0
    /\ call = NoCall
    /\ ThreadsIdle
    /\ ReqIdle
    /\ ErrIdle
    /\ ExtIdle

NextConc ==
    \E t \in Threads : LogCompose(t) \/ LogLock(t) \/ LogWrite(t) \/ LogUnlock(t)

SpecConc == InitConc /\ [][NextConc]_vars

\* the record of thread t's k-th emission
threadRecord(t, k) ==
    writeDoc(clock, LogLevelNames[infoLevel + 1], context, NilContext, threadMessage(t, k))

AllEmitted == \A t \in Threads : tk[t] = KEmits

IsPrefix(p, s) == Len(p) <= Len(s) /\ SubSeq(s, 1, Len(p)) = p

(* C2: with NThreads threads each making KEmits emissions at an enabled    *)
(* level on one Logger, every line of the sink is at all times one whole   *)
(* record of one emission, the unfinished tail is the start of one, and    *)
(* once all emissions have returned the sink holds each of the             *)
(* NThreads x KEmits records exactly once, each ended by a newline.        *)
ConcurrentRecordsWhole ==
    LET sp == SplitLines(out, <<>>)
        recs == sp.lines
        expected == [t \in Threads |-> [k \in 1..KEmits |-> threadRecord(t, k)]]
    IN  /\ \A i \in 1..Len(recs) :
               \E t \in Threads, k \in 1..KEmits : recs[i] = expected[t][k]
        /\ \E t \in Threads, k \in 1..KEmits : IsPrefix(sp.rest, expected[t][k])
        /\ AllEmitted =>
               /\ Len(recs) = NThreads * KEmits
               /\ sp.rest = <<>>
               /\ \A t \in Threads, k \in 1..KEmits :
                      Cardinality({i \in 1..Len(recs) : recs[i] = expected[t][k]}) = 1

\* all emissions have returned, and two threads' records alternate in the sink
ConcurrentWitness ==
    /\ AllEmitted
    /\ Len(Records(out)) = NThreads * KEmits
    /\ Records(out)[1] = threadRecord(1, 1)
    /\ Records(out)[2] = threadRecord(2, 1)

----------------------------------------------------------------------------
(* ReplyWithError                                                          *)

is4xxAbove400(status) == status > StatusBadRequest /\ status < StatusInternalServerError

\* the status test of ReplyWithError
is4xx(status) == status >= StatusBadRequest /\ status < StatusInternalServerError

\* the leveled method ReplyWithError calls, and the context it passes
replyLogCall(err) ==
    IF err.kind = "Error"
    THEN IF is4xx(err.Status) THEN [m |-> "Info", c |-> NilContext]
         ELSE IF err.Alarm # ""
              THEN [m |-> "ErrorC", c |-> NewLogContext("", "", "", "", err.Alarm)]
              ELSE [m |-> "Error", c |-> NilContext]
    ELSE [m |-> "Error", c |-> NilContext]

replyWithErrorAlarmNoResponse(w, hasLogger, sink, loggerLevel, ctx, now, err) ==
    IF ~hasLogger THEN [panicked |-> TRUE, out |-> sink, w |-> w]
    ELSE LET lc == replyLogCall(err)
         IN  [panicked |-> FALSE,
              out |-> log(sink, loggerLevel, ctx, now, methodLevel(lc.m), lc.c,
                          err.Message),
              w |-> IF err.kind = "Error" /\ err.Alarm # "" /\ ~is4xx(err.Status) THEN w
                    ELSE IF err.kind = "Error" THEN errorResponse(err, w)
                    ELSE errorResponse(NewServerError(""), w)]

\* ReplyWithError(w, r, err) on a request whose storage holds a Logger or none.
\* GetLogger gives a nil *Logger when none is stored, and Logger.log reads
\* l.logLevel first: a nil pointer dereference, before anything is written.
replyWithError(w, hasLogger, sink, loggerLevel, ctx, now, err) ==
    IF ~hasLogger THEN [panicked |-> TRUE, out |-> sink, w |-> w]
    ELSE LET lc == replyLogCall(err)
         IN  [panicked |-> FALSE,
              out |-> log(sink, loggerLevel, ctx, now, methodLevel(lc.m), lc.c,
                          err.Message),
              w |-> IF err.kind = "Error" THEN errorResponse(err, w)
                    ELSE errorResponse(NewServerError(""), w)]

\* the errors the model replies with
ErrorStatuses == {399, 400, 403, 499, 500}
TypedErrors ==
    {NewError(m, st, al, cd[1], cd[2]) :
        m \in {"m1", "m2"}, st \in ErrorStatuses, al \in {"", "A1"},
        cd \in {<<"c1", "">>, <<"c1", "d1">>, <<"c2", "d1">>}}
ErrorValues == TypedErrors \cup {StdError("m1")}

\* ReplyWithError as TestReplyWithError drives it: a Logger of level lvl writing
\* to a new buffer (or no Logger in the request), and a new recorder
replyOf(e, lvl, hasLogger, now) ==
    LET r == replyWithError(NewRecorder, hasLogger, <<>>, lvl, NilContext, now, e)
    IN  [op |-> "ReplyWithError", err |-> e, w |-> r.w, panicked |-> r.panicked,
         hasLogger |-> hasLogger, out |-> r.out]

DoReplyWithError(e, lvl, hasLogger) ==
    /\ hasLogger \/ lvl = infoLevel
    /\ reply' = replyOf(e, lvl, hasLogger, clock)
    /\ out' = reply'.out
    /\ logLevel' = lvl
    /\ context' = NilContext
    /\ UNCHANGED <<extVars, defaultLogLevel, clock, mutex, call, threadVars, prev, reqVars>>

InitErr ==
    /\ defaultLogLevel = infoLevel
    /\ clock = 0
    /\ logLevel = defaultLogLevel
    /\ context = NilContext
    /\ out = <<>>
    /\ mutex = 0
    /\ call = NoCall
    /\ ThreadsIdle
    /\ ReqIdle
    /\ ErrIdle
    /\ ExtIdle

NextErr ==
    \E e \in ErrorValues, lvl \in Levels, hasLogger \in BOOLEAN :
        DoReplyWithError(e, lvl, hasLogger)

SpecErr == InitErr /\ [][NextErr]_vars

\* ReplyWithError was called with a typed Error on a request that holds a Logger
RepliedTyped ==
    reply.op = "ReplyWithError" /\ reply.err.kind = "Error" /\ reply.hasLogger

\* the sink holds exactly one record, at this level, with this message
OneRecord(sink, level, message) ==
    /\ Len(Records(sink)) = 1
    /\ Unfinished(sink) = <<>>
    /\ HasKey(Records(sink)[1], "lvl", JSONString(LogLevelNames[level + 1]))
    /\ HasKey(Records(sink)[1], "msg", JSONString(message))

\* the wire body of an error: the code, and the description when there is one
WireBody(code, description) ==
    IF description = "" THEN <<"{", Pair("error", JSONString(code)), "}">>
    ELSE <<"{", Pair("error", JSONString(code)), ",",
           Pair("error_description", JSONString(description)), "}">>

(* C6: ReplyWithError with a typed Error that has an alarm tag emits one   *)
(* ERROR record carrying the alarm, for every status, 4xx included (on a   *)
(* Logger that lets ERROR through).                                        *)
AlarmAlwaysLoggedAtError ==
    (RepliedTyped /\ reply.err.Alarm # "" /\ logLevel <= errorLevel) =>
        /\ OneRecord(out, errorLevel, reply.err.Message)
        /\ HasKey(Records(out)[1], "alarm", JSONString(reply.err.Alarm))

(* C7: ReplyWithError with a typed Error without alarm tag logs the        *)
(* error's message at INFO when 400 <= status < 500 and at ERROR for any   *)
(* other status (one record when the Logger lets that level through, none  *)
(* otherwise), and responds with the error's status, Content-Type          *)
(* application/json and a body of the code plus the non-empty description. *)
NoAlarmLevelAndResponse ==
    (RepliedTyped /\ reply.err.Alarm = "") =>
        LET e == reply.err
            lvl == IF 400 <= e.Status /\ e.Status < 500 THEN infoLevel ELSE errorLevel
        IN  /\ IF lvl >= logLevel THEN OneRecord(out, lvl, e.Message) ELSE out = <<>>
            /\ \A i \in 1..Len(out) : out[i] # Pair("alarm", JSONString(""))
            /\ ~reply.panicked
            /\ reply.w.wroteHeader /\ reply.w.calls = 1 /\ reply.w.writes = 1
            /\ reply.w.code = e.Status
            /\ reply.w.header["Content-Type"] = "application/json"
            /\ reply.w.body = WireBody(e.Code, e.Description)

\* a 499 without alarm has been logged at INFO and answered with its description
NoAlarmWitness ==
    /\ RepliedTyped /\ reply.err.Alarm = "" /\ reply.err.Status = 499
    /\ reply.err.Description # ""
    /\ OneRecord(out, infoLevel, reply.err.Message)
    /\ reply.w.code = 499

replyLevel(e) == IF 400 <= e.Status /\ e.Status < 500 THEN infoLevel ELSE errorLevel

\* one response went out: one status line, one body, the error's
OneResponse(w, e) ==
    /\ w.wroteHeader /\ w.calls = 1 /\ w.writes = 1
    /\ w.code = e.Status
    /\ w.body = WireBody(e.Code, e.Description)

(* C9 as claimed: every ReplyWithError with a typed Error gives exactly    *)
(* one wire response and exactly one log record, whatever the minimum      *)
(* level of the request's Logger, and no failure escapes.                  *)
TypedErrorAlwaysOneRecord ==
    RepliedTyped =>
        /\ ~reply.panicked
        /\ OneResponse(reply.w, reply.err)
        /\ Len(Records(out)) = 1

(* C9 amended: every ReplyWithError with a typed Error, on a request that  *)
(* holds a Logger, gives exactly one wire response and no failure escapes; *)
(* it gives exactly one log record when the level it logs at (INFO for     *)
(* 4xx, ERROR otherwise) is at or above the Logger's minimum, and no       *)
(* record when it is below.                                                *)
TypedErrorOneResponseRecordIfEnabled ==
    RepliedTyped =>
        /\ ~reply.panicked
        /\ OneResponse(reply.w, reply.err)
        /\ IF replyLevel(reply.err) >= logLevel
           THEN Len(Records(out)) = 1 /\ Unfinished(out) = <<>>
           ELSE out = <<>>

\* a 5xx with an alarm has been answered once and logged once, with the alarm
TypedErrorWitness ==
    /\ RepliedTyped /\ reply.err.Status = 500 /\ reply.err.Alarm = "A1"
    /\ logLevel = errorLevel
    /\ OneResponse(reply.w, reply.err)
    /\ OneRecord(out, errorLevel, reply.err.Message)
    /\ HasKey(Records(out)[1], "alarm", JSONString("A1"))

----------------------------------------------------------------------------
(* Two errors side by side: what reaches the wire                          *)

\* Error.Response on a new recorder
responseOf(e) ==
    [op |-> "Response", err |-> e, w |-> errorResponse(e, NewRecorder),
     panicked |-> FALSE, hasLogger |-> FALSE, out |-> <<>>]

\* Error.GetResponse
getResponseOf(e) ==
    [op |-> "GetResponse", err |-> e, w |-> errorGetResponse(e), panicked |-> FALSE,
     hasLogger |-> FALSE, out |-> <<>>]

PairReplyWithError(lvl) ==
    /\ reply' = replyOf(reply.err, lvl, TRUE, clock)
    /\ prev' = replyOf(prev.err, lvl, TRUE, clock)
    /\ out' = reply'.out
    /\ logLevel' = lvl
    /\ UNCHANGED <<extVars, defaultLogLevel, clock, context, mutex, call, threadVars, reqVars>>

PairResponse ==
    /\ reply' = responseOf(reply.err)
    /\ prev' = responseOf(prev.err)
    /\ out' = <<>>
    /\ UNCHANGED <<extVars, defaultLogLevel, clock, logLevel, context, mutex, call, threadVars, reqVars>>

PairGetResponse ==
    /\ reply' = getResponseOf(reply.err)
    /\ prev' = getResponseOf(prev.err)
    /\ out' = <<>>
    /\ UNCHANGED <<extVars, defaultLogLevel, clock, logLevel, context, mutex, call, threadVars, reqVars>>

InitWire ==
    /\ defaultLogLevel = infoLevel
    /\ clock = 0
    /\ logLevel = defaultLogLevel
    /\ context = NilContext
    /\ out = <<>>
    /\ mutex = 0
    /\ call = NoCall
    /\ ThreadsIdle
    /\ ReqIdle
    /\ ExtIdle
    /\ \E e1 \in TypedErrors, e2 \in TypedErrors :
           /\ reply = [op |-> "input", err |-> e1]
           /\ prev = [op |-> "input", err |-> e2]

NextWire ==
    \/ \E lvl \in Levels : PairReplyWithError(lvl)
    \/ PairResponse
    \/ PairGetResponse

SpecWire == InitWire /\ [][NextWire]_vars

\* the two errors agree on what is meant for the wire
SameWireFields(e1, e2) ==
    e1.Status = e2.Status /\ e1.Code = e2.Code /\ e1.Description = e2.Description

(* C10: two typed Errors that agree on status, code and description get    *)
(* the same status, headers and body from Error.Response, from             *)
(* Error.GetResponse and from ReplyWithError, whatever their message and   *)
(* alarm tag; the body holds error and, when non-empty, error_description  *)
(* and nothing else.                                                       *)
WireIgnoresMessageAndAlarm ==
    (reply.op # "input" /\ SameWireFields(reply.err, prev.err)) =>
        /\ reply.op = prev.op
        /\ reply.w.code = prev.w.code
        /\ reply.w.header = prev.w.header
        /\ reply.w.body = prev.w.body
        /\ reply.w.body = WireBody(reply.err.Code, reply.err.Description)

\* two errors that differ in message and alarm were logged differently and
\* answered alike
WireWitness ==
    /\ reply.op = "ReplyWithError"
    /\ SameWireFields(reply.err, prev.err)
    /\ reply.err.Message # prev.err.Message
    /\ reply.err.Alarm # prev.err.Alarm
    /\ reply.err.Description # ""
    /\ reply.out # prev.out
    /\ reply.w.body = prev.w.body

----------------------------------------------------------------------------
(* The request middlewares                                                 *)

CorrelatorHTTPHeader == "Unica-Correlator"
RequestLogMessage == "Request"
ResponseLogMessage == "Response"

\* http.Header.Get on the values of one header: the first value, "" when absent
headerGet(values) == IF values = <<>> THEN "" ELSE values[1]

\* http.Header.Add
headerAdd(values, v) == Append(values, v)

newTransactionIDNeverEmpty(ok, n) == "tx" \o ToString(n)

\* newTransactionID: the n-th identifier, or "" when uuid.NewUUID fails
newTransactionID(ok, n) == IF ok THEN "tx" \o ToString(n) ELSE ""

\* LogContext.Clone: a copy of the value
Clone(c) == c

InitContextIgnoresHeader(values, ctxt, tr) ==
    [header |-> values, ctxt |-> ctxt,
     ctx |-> [Clone(ctxt) EXCEPT !.trans = tr, !.corr = tr]]

InitContextKeepsRequest(values, ctxt, tr) ==
    LET corr == IF headerGet(values) = "" THEN tr ELSE headerGet(values)
    IN  [header |-> values, ctxt |-> ctxt,
         ctx |-> [Clone(ctxt) EXCEPT !.trans = tr, !.corr = corr]]

\* InitContext(r, ctxt) with tr the new transaction identifier: the request's
\* header after it, the context given (untouched) and the new context
InitContext(values, ctxt, tr) ==
    LET corr == IF headerGet(values) = "" THEN tr ELSE headerGet(values)
    IN  [header |-> IF headerGet(values) = "" THEN headerAdd(values, corr) ELSE values,
         ctxt |-> ctxt,
         ctx |-> [Clone(ctxt) EXCEPT !.trans = tr, !.corr = corr]]

DebugRequestUnfiltered(sink, loggerLevel, ctx, now, message) ==
    log(sink, debugLevel, ctx, now, debugLevel, NilContext, message \o ". DUMP")

\* Logger.DebugRequest: the dump of the request, when DEBUG is enabled
DebugRequest(sink, loggerLevel, ctx, now, message) ==
    IF loggerLevel <= debugLevel
    THEN log(sink, loggerLevel, ctx, now, debugLevel, NilContext, message \o ". DUMP")
    ELSE sink

\* the routes: the middlewares around the handler, outermost first
Chains == {<<"WithLogContext", "WithLog">>, <<"WithLog">>, <<"WithLogContext">>}

HasWithLog == \E i \in 1..Len(chain) : chain[i] = "WithLog"

\* the calls a handler makes before it returns
MaxHandlerOps == 2

\* the ticks of the clock while a request is served
MaxClock == 3

WithLogContextAbortsOnUuidFailure(ok) ==
    /\ pc = "arrived"
    /\ chain[1] = "WithLogContext"
    /\ LET tr == newTransactionID(ok, uuids + 1)
           r == InitContext(req.header, tmpl, tr)
       IN  /\ context' = IF ok THEN r.ctx ELSE context
           /\ req' = [req EXCEPT !.header = r.header]
           /\ tmpl' = r.ctxt
           /\ lastTrans' = tr
    /\ uuids' = IF ok THEN uuids + 1 ELSE uuids
    /\ logLevel' = defaultLogLevel
    /\ stored' = ok
    /\ pc' = IF ~ok THEN "aborted" ELSE IF Len(chain) > 1 THEN "WithLog" ELSE "handler"
    /\ UNCHANGED <<extVars, defaultLogLevel, clock, out, mutex, call, threadVars, errVars>>
    /\ UNCHANGED <<chain, rw, lw, start, hops>>

\* WithLogContext(ctxt)(next): a new Logger bound to the request's context is
\* stored in the request, then next is called
WithLogContext(ok) ==
    /\ pc = "arrived"
    /\ chain[1] = "WithLogContext"
    /\ LET tr == newTransactionID(ok, uuids + 1)
           r == InitContext(req.header, tmpl, tr)
       IN  /\ context' = r.ctx
           /\ req' = [req EXCEPT !.header = r.header]
           /\ tmpl' = r.ctxt
           /\ lastTrans' = tr
    /\ uuids' = IF ok THEN uuids + 1 ELSE uuids
    /\ logLevel' = defaultLogLevel
    /\ stored' = TRUE
    /\ pc' = IF Len(chain) > 1 THEN "WithLog" ELSE "handler"
    /\ UNCHANGED <<extVars, defaultLogLevel, clock, out, mutex, call, threadVars, errVars>>
    /\ UNCHANGED <<chain, rw, lw, start, hops>>

\* a LogContext bound by value: the methods of Context have pointer receivers
ByValue(c) == [c EXCEPT !.kind = "LogContextValue"]

\* whether the type assertion v.(Context) succeeds: only a *LogContext does
implementsContext(v) == v.kind = "LogContext"

\* WithLog(next), lines 359-376, up to the call of next.  With no Logger in the
\* request, the Logger made at line 363 is a new variable of the if block: the
\* outer logger stays nil and logger.GetLogContext() at line 367 dereferences it.
\* With a Logger, the type assertion of line 367 has no comma-ok form and
\* panics when the bound context is nil or is not a Context.
WithLogEnter(ok) ==
    /\ \/ pc = "WithLog"
       \/ pc = "arrived" /\ chain[1] = "WithLog"
    /\ start' = clock
    /\ IF ~stored
       THEN /\ LET tr == newTransactionID(ok, uuids + 1)
                   r == InitContext(req.header, EmptyLogContext, tr)
               IN  /\ req' = [req EXCEPT !.header = r.header]
                   /\ lastTrans' = tr
            /\ uuids' = IF ok THEN uuids + 1 ELSE uuids
            /\ pc' = "aborted"
            /\ UNCHANGED <<out, rw, lw>>
       ELSE IF ~implementsContext(context)
       THEN /\ ok
            /\ pc' = "aborted"
            /\ UNCHANGED <<out, rw, lw, req, lastTrans, uuids>>
       ELSE /\ ok
            /\ out' = DebugRequest(
                          log(out, logLevel, context, clock, infoLevel,
                              NewReqLogContext("GET", "/users", "192.0.2.1:1234"),
                              RequestLogMessage),
                          logLevel, context, clock, RequestLogMessage)
            /\ lw' = StatusOK
            /\ rw' = rwSetHeader(rw, CorrelatorHTTPHeader, context.corr)
            /\ pc' = "handler"
            /\ UNCHANGED <<req, lastTrans, uuids>>
    /\ UNCHANGED <<extVars, defaultLogLevel, clock, logLevel, context, mutex, call, threadVars,
                   errVars>>
    /\ UNCHANGED <<chain, stored, tmpl, hops>>

\* the handler calls w.WriteHeader(code): LoggableResponseWriter.WriteHeader when
\* WithLog wrapped the writer
HandlerWriteHeader(code) ==
    /\ pc = "handler"
    /\ hops < MaxHandlerOps
    /\ hops' = hops + 1
    /\ lw' = IF HasWithLog THEN code ELSE lw
    /\ rw' = rwWriteHeader(rw, code)
    /\ UNCHANGED <<extVars, defaultLogLevel, clock, loggerVars, call, threadVars, errVars>>
    /\ UNCHANGED <<pc, chain, req, stored, tmpl, start, lastTrans, uuids>>

\* the handler calls w.Write: the embedded ResponseWriter's Write
HandlerWrite ==
    /\ pc = "handler"
    /\ hops < MaxHandlerOps
    /\ hops' = hops + 1
    /\ rw' = rwWrite(rw, <<"body">>)
    /\ UNCHANGED <<extVars, defaultLogLevel, clock, loggerVars, call, threadVars, errVars>>
    /\ UNCHANGED <<pc, chain, req, stored, tmpl, lw, start, lastTrans, uuids>>

\* the handler returns
HandlerReturn ==
    /\ pc = "handler"
    /\ pc' = IF HasWithLog THEN "returned" ELSE "done"
    /\ UNCHANGED <<extVars, defaultLogLevel, clock, loggerVars, call, threadVars, errVars>>
    /\ UNCHANGED <<chain, req, stored, tmpl, rw, lw, start, hops, lastTrans, uuids>>

\* the handler panics: no middleware recovers or defers, the panic unwinds them
HandlerPanic ==
    /\ pc = "handler"
    /\ pc' = "handlerPanicked"
    /\ UNCHANGED <<extVars, defaultLogLevel, clock, loggerVars, call, threadVars, errVars>>
    /\ UNCHANGED <<chain, req, stored, tmpl, rw, lw, start, hops, lastTrans, uuids>>

\* time passes while the handler runs
Tick ==
    /\ pc = "handler"
    /\ clock < MaxClock
    /\ clock' = clock + 1
    /\ UNCHANGED <<extVars, defaultLogLevel, loggerVars, call, threadVars, errVars, reqVars>>

\* WithLog(next), lines 382-387, after next has returned
WithLogExit ==
    /\ pc = "returned"
    /\ out' = log(out, logLevel, context, clock, infoLevel,
                  NewRespLogContext(lw, (clock - start) \div TicksPerMs,
                                    rw.header["Location"]),
                  ResponseLogMessage)
    /\ pc' = "done"
    /\ UNCHANGED <<extVars, defaultLogLevel, clock, logLevel, context, mutex, call, threadVars,
                   errVars>>
    /\ UNCHANGED <<chain, req, stored, tmpl, rw, lw, start, hops, lastTrans, uuids>>

InitReq ==
    /\ defaultLogLevel \in {debugLevel, infoLevel, warnLevel}
    /\ clock = 0
    /\ logLevel = defaultLogLevel
    /\ context = NilContext
    /\ out = <<>>
    /\ mutex = 0
    /\ call = NoCall
    /\ ThreadsIdle
    /\ ErrIdle
    /\ ExtIdle
    /\ pc = "arrived"
    /\ chain \in Chains
    /\ \E values \in {<<>>, <<"">>, <<"abc">>} : req = [inbound |-> values, header |-> values]
    /\ stored = FALSE
    /\ tmpl = NewLogContext("", "", "op1", "svc1", "")
    /\ rw = NewRecorder
    /\ lw = StatusOK
    /\ start = 0
    /\ hops = 0
    /\ lastTrans = ""
    /\ uuids = 0

NextReq ==
    \/ \E ok \in BOOLEAN : WithLogContext(ok)
    \/ \E ok \in BOOLEAN : WithLogEnter(ok)
    \/ \E code \in {201, 404} : HandlerWriteHeader(code)
    \/ HandlerWrite
    \/ HandlerReturn
    \/ HandlerPanic
    \/ Tick
    \/ WithLogExit

SpecReq == InitReq /\ [][NextReq]_vars

\* the records of the sink with this message
RecordsWithMsg(message) ==
    {i \in 1..Len(Records(out)) : HasKey(Records(out)[i], "msg", JSONString(message))}

ThroughBoth == chain = <<"WithLogContext", "WithLog">>

(* C3: for a request that arrives with a non-empty correlation header c    *)
(* and passes through WithLogContext then WithLog, the context's           *)
(* correlator, the corr field of the Request and of the Response record    *)
(* (both written when the Logger lets INFO through) and the correlation    *)
(* header of the response all equal c.                                     *)
CorrelatorPropagated ==
    (ThroughBoth /\ headerGet(req.inbound) # "" /\ pc = "done") =>
        LET c == headerGet(req.inbound)
        IN  /\ context.corr = c
            /\ rw.header[CorrelatorHTTPHeader] = c
            /\ \A i \in 1..Len(Records(out)) : HasKey(Records(out)[i], "corr", JSONString(c))
            /\ logLevel <= infoLevel =>
                   /\ Cardinality(RecordsWithMsg(RequestLogMessage)) = 1
                   /\ Cardinality(RecordsWithMsg(ResponseLogMessage)) = 1

\* a request with the header "abc" went through and both records carry it
CorrelatorPropagatedWitness ==
    /\ ThroughBoth /\ req.inbound = <<"abc">> /\ pc = "done"
    /\ rw.header[CorrelatorHTTPHeader] = "abc"
    /\ Len(Records(out)) = 2
    /\ HasKey(Records(out)[1], "msg", JSONString(RequestLogMessage))
    /\ HasKey(Records(out)[1], "corr", JSONString("abc"))
    /\ HasKey(Records(out)[2], "msg", JSONString(ResponseLogMessage))
    /\ HasKey(Records(out)[2], "corr", JSONString("abc"))

(* C4: for a request that arrives without the correlation header and      *)
(* passes through WithLogContext then WithLog, the context's correlator    *)
(* is the transaction identifier just generated, the request's header has  *)
(* been given that value, and the response's correlation header equals it. *)
CorrelatorGenerated ==
    (ThroughBoth /\ req.inbound = <<>> /\ pc \notin {"arrived"}) =>
        /\ context.trans = lastTrans
        /\ context.corr = lastTrans
        /\ req.header = <<lastTrans>>
        /\ headerGet(req.header) = context.corr
        /\ pc \in {"handler", "returned", "done", "handlerPanicked"} =>
               rw.header[CorrelatorHTTPHeader] = lastTrans

\* a request without the header went through with a generated identifier
CorrelatorGeneratedWitness ==
    /\ ThroughBoth /\ req.inbound = <<>> /\ pc = "done"
    /\ lastTrans = "tx1"
    /\ context.corr = "tx1"
    /\ req.header = <<"tx1">>
    /\ rw.header[CorrelatorHTTPHeader] = "tx1"

(* C5: when WithLog handles a request whose storage holds no Logger, it    *)
(* makes one, writes the Request record, calls the handler and writes the  *)
(* Response record: the request is never aborted.                          *)
WithLogAloneNeverAborts ==
    (chain = <<"WithLog">>) => pc # "aborted"

\* the record is an INFO record with this message
IsInfoRecord(rec, message) ==
    /\ HasKey(rec, "lvl", JSONString(LogLevelNames[infoLevel + 1]))
    /\ HasKey(rec, "msg", JSONString(message))

(* C11: for a request through WithLogContext then WithLog with the Logger  *)
(* at level INFO and a handler that returns normally, the sink is empty    *)
(* until WithLog runs, holds exactly the INFO "Request" record while the   *)
(* handler runs, and holds exactly that record followed by the INFO        *)
(* "Response" record once WithLog has returned.                            *)
RequestThenResponse ==
    (ThroughBoth /\ logLevel = infoLevel) =>
        /\ pc \in {"arrived", "WithLog"} => out = <<>>
        /\ pc \in {"handler", "returned"} =>
               /\ Len(Records(out)) = 1 /\ Unfinished(out) = <<>>
               /\ IsInfoRecord(Records(out)[1], RequestLogMessage)
        /\ pc = "done" =>
               /\ Len(Records(out)) = 2 /\ Unfinished(out) = <<>>
               /\ IsInfoRecord(Records(out)[1], RequestLogMessage)
               /\ IsInfoRecord(Records(out)[2], ResponseLogMessage)

\* a handler that made calls on the writer has returned and both records are there
RequestThenResponseWitness ==
    /\ ThroughBoth /\ logLevel = infoLevel /\ pc = "done" /\ hops = MaxHandlerOps
    /\ Len(Records(out)) = 2
    /\ IsInfoRecord(Records(out)[2], ResponseLogMessage)

\* the Response record of a request that WithLog has finished
ResponseRecord == Records(out)[Len(Records(out))]

ResponseWritten == HasWithLog /\ pc = "done" /\ logLevel <= infoLevel

(* C12: the status field of the Response record equals the status code     *)
(* sent to the client, for any sequence of WriteHeader and Write calls of  *)
(* the handler.                                                            *)
StatusLoggedIsStatusSent ==
    ResponseWritten => HasKey(ResponseRecord, "status", JSONInt(rw.code))

(* C13: every Response record holds a status field and a latency field,    *)
(* the latency being the elapsed whole milliseconds since entry, also when *)
(* less than one millisecond has elapsed.                                  *)
ResponseHasStatusAndLatency ==
    ResponseWritten =>
        /\ HasKey(ResponseRecord, "status", JSONInt(lw))
        /\ HasKey(ResponseRecord, "latency", JSONInt((clock - start) \div TicksPerMs))

(* C14: once WithLog has written a Request record and the handler has      *)
(* finished, by returning or by panicking, a Response record has been      *)
(* written for the request.                                                *)
ResponseFollowsRequest ==
    (pc \in {"done", "handlerPanicked"} /\ RecordsWithMsg(RequestLogMessage) # {}) =>
        RecordsWithMsg(ResponseLogMessage) # {}

----------------------------------------------------------------------------
(* Record composition through the Logger: every bound context with every   *)
(* per-call context                                                        *)

\* the contexts bound to the Logger
BoundContexts ==
    {NilContext, EmptyLogContext, NewLogContext("t", "", "o", "", ""), ChanValue}

\* the contexts given to one call
PerCallContexts ==
    {NilContext, NewReqLogContext("", "", ""), NewReqLogContext("GET", "", ""),
     NewRespLogContext(200, 4, ""), ChanValue}

\* Logger.SetLogContext
SetLogContext(c) ==
    /\ context' = c
    /\ call' = [op |-> "SetLogContext", level |-> 0, withContext |-> FALSE, pre |-> out]
    /\ UNCHANGED <<extVars, defaultLogLevel, clock, logLevel, out, mutex>>
    /\ UNCHANGED <<threadVars, errVars, reqVars>>

\* the records a run of the composition may hold in the sink
MaxDocs == 1

\* Logger.DebugC .. Logger.FatalC with the context given to the call
EmitC(m, customContext) ==
    /\ Len(Records(out)) < MaxDocs
    /\ methodTakesContext(m)
    /\ out' = log(out, logLevel, context, clock, methodLevel(m), customContext, "hi")
    /\ call' = [op |-> m, level |-> methodLevel(m),
                withContext |-> customContext # NilContext, pre |-> out,
                custom |-> customContext]
    /\ UNCHANGED <<extVars, defaultLogLevel, clock, logLevel, context, mutex>>
    /\ UNCHANGED <<threadVars, errVars, reqVars>>

InitDoc ==
    /\ defaultLogLevel = infoLevel
    /\ clock = 0
    /\ logLevel \in {debugLevel, warnLevel}
    /\ context = NilContext
    /\ out = <<>>
    /\ mutex = 0
    /\ call = NoCall
    /\ ThreadsIdle
    /\ ReqIdle
    /\ ErrIdle
    /\ ExtIdle

NextDoc ==
    \/ \E c \in BoundContexts : SetLogContext(c)
    \/ \E m \in Methods, c \in PerCallContexts : EmitC(m, c)

SpecDoc == InitDoc /\ [][NextDoc]_vars

\* the fields a context is expected to add to a record, as the bytes of each
ExpectedFields(v) ==
    CASE v = NewLogContext("t", "", "o", "", "") -> <<"\"trans\":\"t\"", "\"op\":\"o\"">>
      [] v = NewReqLogContext("GET", "", "") -> <<"\"method\":\"GET\"">>
      [] v = NewRespLogContext(200, 4, "") -> <<"\"status\":200", "\"latency\":4">>
      [] OTHER -> <<>>

RECURSIVE CommaSeparated(_)
\* the fields with exactly one comma between adjacent ones
CommaSeparated(fields) ==
    IF Len(fields) <= 1 THEN fields
    ELSE <<Head(fields), ",">> \o CommaSeparated(Tail(fields))

\* the line expected for a call: time, lvl, the bound context's fields, the
\* per-call context's fields, msg
ExpectedLine(levelName, bound, custom) ==
    <<"{">>
    \o CommaSeparated(<<"\"time\":\"t0\"", "\"lvl\":\"" \o levelName \o "\"">>
                      \o ExpectedFields(bound) \o ExpectedFields(custom)
                      \o <<"\"msg\":\"hi\"">>)
    \o <<"}", "\n">>

EmittedC == call.op \in Methods /\ call.level >= logLevel

(* C15: for every bound context and per-call context that is absent,       *)
(* empty or with fields, an enabled call appends one line holding time,    *)
(* lvl, the bound context's fields, the per-call context's fields and msg, *)
(* in that order, with one comma between adjacent fields and a final       *)
(* newline; absent and empty contexts and empty fields add nothing.        *)
WriteDocComposesLine ==
    (EmittedC /\ context # ChanValue /\ call.custom # ChanValue) =>
        out = call.pre \o ExpectedLine(LogLevelNames[call.level + 1], context, call.custom)

\* a record with the fields of both contexts
WriteDocWitness ==
    /\ EmittedC
    /\ context = NewLogContext("t", "", "o", "", "")
    /\ call.custom = NewRespLogContext(200, 4, "")
    /\ Len(Records(out)) = MaxDocs
    /\ Records(out)[MaxDocs] =
           <<"{", "\"time\":\"t0\"", ",", "\"lvl\":\"ERROR\"", ",", "\"trans\":\"t\"", ",",
             "\"op\":\"o\"", ",", "\"status\":200", ",", "\"latency\":4", ",",
             "\"msg\":\"hi\"", "}", "\n">>

Unserializable == context = ChanValue \/ call.custom = ChanValue

(* C16 as stated: when the bound or the per-call context cannot be         *)
(* serialized, no record is written for the call.                          *)
UnserializableDropsRecord ==
    (EmittedC /\ Unserializable) => out = call.pre

(* C16 amended: when the bound or the per-call context cannot be           *)
(* serialized, the call still appends one record, which holds time, lvl,   *)
(* the fields of the context that can be serialized (if any) and msg, and  *)
(* nothing of the context that cannot.                                     *)
UnserializableContextLeftOut ==
    (EmittedC /\ Unserializable) =>
        out = call.pre \o ExpectedLine(LogLevelNames[call.level + 1], context, call.custom)

\* a record written with a per-call context that cannot be serialized
UnserializableWitness ==
    /\ EmittedC
    /\ context = NewLogContext("t", "", "o", "", "")
    /\ call.custom = ChanValue
    /\ Len(Records(out)) = Len(Records(call.pre)) + 1
    /\ HasKey(Records(out)[Len(Records(out))], "trans", "\"t\"")

----------------------------------------------------------------------------
(* Several Loggers and the default level of the package                    *)

\* the Loggers a run constructs
MaxLoggers == 2

newLoggerLevelInfo(default) == infoLevel

\* the logLevel NewLogger gives to the Logger it returns
newLoggerLevel(default) == default

\* NewLogger()
NewLogger ==
    /\ Len(loggers) < MaxLoggers
    /\ loggers' = Append(loggers, newLoggerLevel(defaultLogLevel))
    /\ call' = [op |-> "NewLogger", logger |-> Len(loggers) + 1, name |-> "",
                loggers |-> loggers, default |-> defaultLogLevel]
    /\ UNCHANGED <<defaultLogLevel, clock, loggerVars, threadVars, errVars, reqVars>>
    /\ UNCHANGED <<heap, rctx, rpc>>
    /\ UNCHANGED <<pipeVars, sinkVars>>

\* SetDefaultLogLevel(level)
SetDefaultLogLevel(level) ==
    /\ defaultLogLevel' = levelByName(level)
    /\ call' = [op |-> "SetDefaultLogLevel", logger |-> 0, name |-> level,
                loggers |-> loggers, default |-> defaultLogLevel]
    /\ UNCHANGED <<clock, loggerVars, threadVars, errVars, reqVars, extVars>>

\* Logger.SetLevel(levelName) on the i-th Logger
SetLevelOf(i, levelName) ==
    /\ i \in 1..Len(loggers)
    /\ loggers' = [loggers EXCEPT ![i] = levelByName(levelName)]
    /\ call' = [op |-> "SetLevel", logger |-> i, name |-> levelName,
                loggers |-> loggers, default |-> defaultLogLevel]
    /\ UNCHANGED <<defaultLogLevel, clock, loggerVars, threadVars, errVars, reqVars>>
    /\ UNCHANGED <<heap, rctx, rpc>>
    /\ UNCHANGED <<pipeVars, sinkVars>>

\* Logger.GetLevel() of the i-th Logger
GetLevel(i) == LogLevelNames[loggers[i] + 1]

InitLevels ==
    /\ defaultLogLevel = infoLevel
    /\ clock = 0
    /\ logLevel = defaultLogLevel
    /\ context = NilContext
    /\ out = <<>>
    /\ mutex = 0
    /\ call = NoCall
    /\ ThreadsIdle
    /\ ReqIdle
    /\ ErrIdle
    /\ ExtIdle

NextLevels ==
    \/ NewLogger
    \/ \E n \in LevelNameInputs : SetDefaultLogLevel(n)
    \/ \E i \in 1..MaxLoggers, n \in LevelNameInputs : SetLevelOf(i, n)

SpecLevels == InitLevels /\ [][NextLevels]_vars

(* C17: SetDefaultLogLevel leaves the level of every existing Logger as it *)
(* was; a Logger constructed afterwards starts at the default of that      *)
(* moment and construction changes neither the default nor another Logger; *)
(* a Logger's SetLevel changes neither the default nor any other Logger.   *)
DefaultLevelOnlyForNewLoggers ==
    /\ call.op = "SetDefaultLogLevel" =>
           loggers = call.loggers
    /\ call.op = "NewLogger" =>
           /\ loggers = Append(call.loggers, call.default)
           /\ defaultLogLevel = call.default
    /\ call.op = "SetLevel" =>
           /\ defaultLogLevel = call.default
           /\ Len(loggers) = Len(call.loggers)
           /\ \A j \in 1..Len(loggers) : j # call.logger => loggers[j] = call.loggers[j]

\* a Logger made under the default, the default changed, a second Logger made
DefaultLevelWitness ==
    /\ call.op = "NewLogger" /\ call.logger = 2
    /\ loggers = <<infoLevel, errorLevel>>
    /\ defaultLogLevel = errorLevel

\* the canonical name a level name stands for
CanonicalName(n) ==
    CASE n \in {"Debug", "DEBUG"} -> "DEBUG"
      [] n \in {"inFo", "INFO"} -> "INFO"
      [] n \in {"wArN", "WARN"} -> "WARN"
      [] n \in {"eRRoR", "ERROR"} -> "ERROR"
      [] n \in {"fatAL", "FATAL"} -> "FATAL"
      [] OTHER -> "none"

SetLevelInvalidWitness ==
    /\ call.op = "SetLevel" /\ call.name = "invalid"
    /\ call.loggers[call.logger] = fatalLevel
    /\ defaultLogLevel = warnLevel
    /\ GetLevel(call.logger) = "INFO"

----------------------------------------------------------------------------
(* C20 as stated: once WithLogContext has initialised the request's        *)
(* context, the context's transaction ID is not the empty string.          *)
TransactionIDNeverEmpty ==
    stored => context.trans # ""

(* C20 amended: once WithLogContext has initialised the request's context, *)
(* the context's transaction ID is what newTransactionID returned: a       *)
(* non-empty identifier when uuid.NewUUID succeeded and the empty string   *)
(* when it failed.                                                         *)
TransactionIDEmptyIffUuidFailed ==
    stored =>
        /\ context.trans = lastTrans
        /\ context.trans = "" <=> uuids = 0

\* a request initialised after uuid.NewUUID failed is being served
TransactionIDWitness ==
    /\ stored /\ uuids = 0 /\ context.trans = ""
    /\ pc = "done" /\ ThroughBoth

----------------------------------------------------------------------------
(* Requests sharing the template context: LogContext values live at        *)
(* addresses, a *LogContext is an address, and each request runs           *)
(* InitContext a statement at a time.                                      *)

\* the requests in flight
NRequests == 2
Requests == 1..NRequests

\* the address of the template given to WithLogContext
TemplateAddr == 1

\* the template's fields when the server starts
Template == NewLogContext("T0", "C0", "op1", "svc1", "")

cloneAliased(h, a) == [heap |-> h, addr |-> a]

\* LogContext.Clone: a := *c; return &a
cloneCopied(h, a) == [heap |-> Append(h, h[a]), addr |-> Len(h) + 1]

\* InitContext, line 330: newCtxt := ctxt.Clone()
InitContextClone(r) ==
    /\ rpc[r].at = "start"
    /\ LET c == cloneCopied(heap, TemplateAddr)
       IN  heap' = c.heap /\ rctx' = [rctx EXCEPT ![r] = c.addr]
    /\ rpc' = [rpc EXCEPT ![r].at = "ids"]
    /\ UNCHANGED <<defaultLogLevel, clock, loggerVars, call, threadVars, errVars, reqVars>>
    /\ UNCHANGED loggers
    /\ UNCHANGED <<pipeVars, sinkVars>>

\* InitContext, lines 331-336: the transaction identifier and the correlator
InitContextIDs(r, ok, values) ==
    /\ rpc[r].at = "ids"
    /\ LET tr == newTransactionID(ok, r)
       IN  rpc' = [rpc EXCEPT ![r] =
                      [at |-> "setTrans", trans |-> tr,
                       corr |-> IF headerGet(values) = "" THEN tr ELSE headerGet(values),
                       set |-> "none"]]
    /\ UNCHANGED <<defaultLogLevel, clock, loggerVars, call, threadVars, errVars, reqVars>>
    /\ UNCHANGED <<loggers, heap, rctx>>
    /\ UNCHANGED <<pipeVars, sinkVars>>

\* InitContext, line 337: newCtxt.SetTransactionID(trans)
InitContextSetTransactionID(r) ==
    /\ rpc[r].at = "setTrans"
    /\ heap' = [heap EXCEPT ![rctx[r]].trans = rpc[r].trans]
    /\ rpc' = [rpc EXCEPT ![r].at = "setCorr"]
    /\ UNCHANGED <<defaultLogLevel, clock, loggerVars, call, threadVars, errVars, reqVars>>
    /\ UNCHANGED <<loggers, rctx>>
    /\ UNCHANGED <<pipeVars, sinkVars>>

\* InitContext, line 338: newCtxt.SetCorrelator(corr)
InitContextSetCorrelator(r) ==
    /\ rpc[r].at = "setCorr"
    /\ heap' = [heap EXCEPT ![rctx[r]].corr = rpc[r].corr]
    /\ rpc' = [rpc EXCEPT ![r].at = "ready"]
    /\ UNCHANGED <<defaultLogLevel, clock, loggerVars, call, threadVars, errVars, reqVars>>
    /\ UNCHANGED <<loggers, rctx>>
    /\ UNCHANGED <<pipeVars, sinkVars>>

\* the value request r's handler gives to a field
handlerValue(r) == "x" \o ToString(r)

\* the handler of request r sets a field of GetLogContext(r)
HandlerSetField(r, field) ==
    /\ rpc[r].at = "ready"
    /\ heap' = [heap EXCEPT ![rctx[r]] =
                    CASE field = "trans" -> [@ EXCEPT !.trans = handlerValue(r)]
                      [] field = "corr" -> [@ EXCEPT !.corr = handlerValue(r)]
                      [] OTHER -> [@ EXCEPT !.op = handlerValue(r)]]
    /\ rpc' = [rpc EXCEPT ![r].at = "handled", ![r].set = field]
    /\ UNCHANGED <<defaultLogLevel, clock, loggerVars, call, threadVars, errVars, reqVars>>
    /\ UNCHANGED <<loggers, rctx>>
    /\ UNCHANGED <<pipeVars, sinkVars>>

InitClone ==
    /\ defaultLogLevel = infoLevel
    /\ clock = 0
    /\ logLevel = defaultLogLevel
    /\ context = NilContext
    /\ out = <<>>
    /\ mutex = 0
    /\ call = NoCall
    /\ ThreadsIdle
    /\ ReqIdle
    /\ ErrIdle
    /\ loggers = <<>>
    /\ heap = <<Template>>
    /\ rctx = [r \in Requests |-> 0]
    /\ rpc = [r \in Requests |-> [at |-> "start", trans |-> "", corr |-> "", set |-> "none"]]
    /\ LateIdle

NextClone ==
    \/ \E r \in Requests : InitContextClone(r)
    \/ \E r \in Requests, ok \in BOOLEAN, values \in {<<>>, <<"abc">>} :
           InitContextIDs(r, ok, values)
    \/ \E r \in Requests : InitContextSetTransactionID(r)
    \/ \E r \in Requests : InitContextSetCorrelator(r)
    \/ \E r \in Requests, field \in {"trans", "corr", "op"} : HandlerSetField(r, field)

SpecClone == InitClone /\ [][NextClone]_vars

\* the context request r must see, given only what r itself has done
OwnContext(r) ==
    LET p == rpc[r]
        c1 == IF p.at \in {"setCorr", "ready", "handled"}
              THEN [Template EXCEPT !.trans = p.trans] ELSE Template
        c2 == IF p.at \in {"ready", "handled"} THEN [c1 EXCEPT !.corr = p.corr] ELSE c1
    IN  CASE p.set = "trans" -> [c2 EXCEPT !.trans = handlerValue(r)]
          [] p.set = "corr" -> [c2 EXCEPT !.corr = handlerValue(r)]
          [] p.set = "op" -> [c2 EXCEPT !.op = handlerValue(r)]
          [] OTHER -> c2

(* C19: whatever the interleaving of the requests, the template keeps all  *)
(* its fields, each request's context is a value of its own, and it holds  *)
(* what that request alone has set: no request's writes show in the        *)
(* template or in another request's context.                               *)
CloneIndependent ==
    /\ heap[TemplateAddr] = Template
    /\ \A r \in Requests :
           rctx[r] # 0 =>
               /\ rctx[r] # TemplateAddr
               /\ \A q \in Requests : q # r => rctx[q] # rctx[r]
               /\ heap[rctx[r]] = OwnContext(r)

\* two requests have both set fields of their contexts
CloneWitness ==
    /\ rpc[1].at = "handled" /\ rpc[1].set = "corr"
    /\ rpc[2].at = "handled" /\ rpc[2].set = "trans"
    /\ heap[rctx[1]].corr = "x1"
    /\ heap[rctx[2]].trans = "x2"
    /\ heap[rctx[2]].corr = "abc"
    /\ heap[TemplateAddr].corr = "C0"

----------------------------------------------------------------------------
(* C21: once WithLogContext has established the context, reading the       *)
(* correlation header of the inbound request gives the context's           *)
(* correlator, whether the header arrived absent, present and empty, or    *)
(* present and non-empty.                                                  *)
InboundHeaderIsCorrelator ==
    stored => headerGet(req.header) = context.corr

(* C22: when WithLogContext is the only middleware of the route, the       *)
(* response carries the correlation header, equal to the context's         *)
(* correlator.                                                             *)
ContextAloneSetsResponseHeader ==
    (chain = <<"WithLogContext">> /\ pc \in {"handler", "done"}) =>
        rw.header[CorrelatorHTTPHeader] = context.corr

(* C26: when uuid.NewUUID fails, WithLogContext still stores a Logger in   *)
(* the request and calls the next handler; the context's transaction ID is *)
(* the empty string, and so is its correlator when the request carried     *)
(* none.                                                                   *)
UuidFailureStillServes ==
    (chain # <<>> /\ chain[1] = "WithLogContext" /\ pc # "arrived" /\ uuids = 0) =>
        /\ stored
        /\ pc \in {"WithLog", "handler", "returned", "done", "handlerPanicked"}
        /\ context.trans = ""
        /\ headerGet(req.inbound) = "" => context.corr = ""

\* a request without correlator has been served although uuid.NewUUID failed
UuidFailureWitness ==
    /\ ThroughBoth /\ req.inbound = <<>> /\ uuids = 0
    /\ pc = "done" /\ hops > 0
    /\ context.corr = ""
    /\ rw.header[CorrelatorHTTPHeader] = ""

----------------------------------------------------------------------------
\* the level a level name stands for, INFO when it stands for none
LevelOfName(n) ==
    CASE CanonicalName(n) = "DEBUG" -> debugLevel
      [] CanonicalName(n) = "WARN" -> warnLevel
      [] CanonicalName(n) = "ERROR" -> errorLevel
      [] CanonicalName(n) = "FATAL" -> fatalLevel
      [] OTHER -> infoLevel

Unrecognized(n) == CanonicalName(n) = "none"

----------------------------------------------------------------------------
(* Pipeline: a handler is the endpoint, or a middleware wrapped around the *)
(* handler it was given as next                                            *)

Endpoint == [kind |-> "endpoint"]

\* mw(next): the handler a middleware returns, which runs and calls next once
Wrap(mw, next) == [kind |-> "mw", id |-> mw, next |-> next]

RECURSIVE PipelineForwardLoop(_, _, _)
PipelineForwardLoop(mws, i, h) ==
    IF i > Len(mws) THEN h ELSE PipelineForwardLoop(mws, i + 1, Wrap(mws[i], h))

PipelineForward(mws, endpoint) == PipelineForwardLoop(mws, 1, endpoint)

RECURSIVE PipelineLoop(_, _, _)
\* for i := len(mws) - 1; i >= 0; i-- { h = mws[i](h) }, with indices from 1
PipelineLoop(mws, i, h) ==
    IF i < 1 THEN h ELSE PipelineLoop(mws, i - 1, Wrap(mws[i], h))

\* Pipeline(mws, endpoint)
Pipeline(mws, endpoint) == PipelineLoop(mws, Len(mws), endpoint)

\* the middlewares a list is made of, and the longest list
Middlewares == {"mw1", "mw2", "mw3"}
MaxMws == 3

RECURSIVE MwLists(_)
\* the lists of at most n middlewares
MwLists(n) ==
    IF n = 0 THEN {<<>>}
    ELSE MwLists(n - 1) \cup {Append(l, m) : l \in {x \in MwLists(n - 1) : Len(x) = n - 1},
                                             m \in Middlewares}

\* p := Pipeline(mws, endpoint)
PipelineBuild ==
    /\ ph.kind = "none"
    /\ ph' = Pipeline(chain, Endpoint)
    /\ UNCHANGED <<defaultLogLevel, clock, loggerVars, call, threadVars, errVars, reqVars>>
    /\ UNCHANGED <<loggers, heap, rctx, rpc, ptrace, sinkVars>>

\* the handler of a middleware runs and calls its next
RunMiddleware ==
    /\ ph.kind = "mw"
    /\ ptrace' = Append(ptrace, ph.id)
    /\ ph' = ph.next
    /\ UNCHANGED <<defaultLogLevel, clock, loggerVars, call, threadVars, errVars, reqVars>>
    /\ UNCHANGED <<loggers, heap, rctx, rpc, sinkVars>>

\* the endpoint runs
RunEndpoint ==
    /\ ph.kind = "endpoint"
    /\ ptrace' = Append(ptrace, "endpoint")
    /\ ph' = [kind |-> "returned"]
    /\ UNCHANGED <<defaultLogLevel, clock, loggerVars, call, threadVars, errVars, reqVars>>
    /\ UNCHANGED <<loggers, heap, rctx, rpc, sinkVars>>

InitPipe ==
    /\ defaultLogLevel = infoLevel
    /\ clock = 0
    /\ logLevel = defaultLogLevel
    /\ context = NilContext
    /\ out = <<>>
    /\ mutex = 0
    /\ call = NoCall
    /\ ThreadsIdle
    /\ ErrIdle
    /\ pc = "idle"
    /\ chain \in MwLists(MaxMws)
    /\ req = [inbound |-> <<>>, header |-> <<>>]
    /\ stored = FALSE
    /\ tmpl = EmptyLogContext
    /\ rw = NewRecorder
    /\ lw = StatusOK
    /\ start = 0
    /\ hops = 0
    /\ lastTrans = ""
    /\ uuids = 0
    /\ ExtIdle

NextPipe == PipelineBuild \/ RunMiddleware \/ RunEndpoint

SpecPipe == InitPipe /\ [][NextPipe]_vars

(* C23: the handler Pipeline(mws, endpoint) returns runs mws[0], then      *)
(* mws[1] and so on in list order, then the endpoint, each once; with an   *)
(* empty list only the endpoint runs.                                      *)
PipelineRunsInListOrder ==
    /\ IsPrefix(ptrace, Append(chain, "endpoint"))
    /\ ph.kind = "returned" => ptrace = Append(chain, "endpoint")
    /\ ph.kind = "mw" => ph.id = chain[Len(ptrace) + 1]
    /\ ph.kind = "endpoint" => ptrace = chain

\* a list of two different middlewares has run to the end of the endpoint
PipelineWitness ==
    /\ chain = <<"mw2", "mw1">>
    /\ ph.kind = "returned"
    /\ ptrace = <<"mw2", "mw1", "endpoint">>

----------------------------------------------------------------------------
(* WriteJSON                                                               *)

\* ResponseWriter.Header().Add: Get returns the first value added
rwAddHeader(w, name, value) ==
    IF w.header[name] = "" THEN [w EXCEPT !.header[name] = value] ELSE w

\* the error json.NewEncoder(w).Encode returns for a value it cannot encode
UnsupportedTypeError == StdError("json: unsupported type")

\* WriteJSON(w, r, v) on a request whose storage holds a Logger or none
writeJSON(w, hasLogger, sink, loggerLevel, ctx, now, v) ==
    LET w1 == rwAddHeader(w, "Content-Type", "application/json")
        m == MarshalContext(v)
    IN  IF m.err
        THEN replyWithError(w1, hasLogger, sink, loggerLevel, ctx, now, UnsupportedTypeError)
        ELSE [panicked |-> FALSE, out |-> sink, w |-> rwWrite(w1, m.b \o <<"\n">>)]

\* the values given to WriteJSON
JSONValues ==
    {NewLogContext(t, c, "", "", "") : t \in {"", "txid-01"}, c \in {"", "corr-02"}}
    \cup {NewReqLogContext("GET", "/users", ""), NewReqLogContext("", "", ""),
          NewReqLogContext("POST", "/users", "10.0.0.1")}
    \cup {NewRespLogContext(200, 4, ""), NewRespLogContext(404, 0, "/x")}
    \cup {ChanValue}

\* the contexts bound to the request's Logger
JSONLoggerContexts == {NilContext, NewLogContext("tx1", "abc", "", "", "")}

\* WriteJSON as TestWriteJSON drives it, with a new recorder
DoWriteJSON(v, lvl, ctx, hasLogger) ==
    /\ hasLogger \/ (lvl = infoLevel /\ ctx = NilContext)
    /\ LET r == writeJSON(NewRecorder, hasLogger, <<>>, lvl, ctx, clock, v)
       IN  /\ reply' = [op |-> "WriteJSON", v |-> v, w |-> r.w, panicked |-> r.panicked,
                        hasLogger |-> hasLogger, out |-> r.out]
           /\ out' = r.out
    /\ logLevel' = lvl
    /\ context' = ctx
    /\ UNCHANGED <<extVars, defaultLogLevel, clock, mutex, call, threadVars, prev, reqVars>>

NextJSON ==
    \E v \in JSONValues, lvl \in Levels, ctx \in JSONLoggerContexts, hasLogger \in BOOLEAN :
        DoWriteJSON(v, lvl, ctx, hasLogger)

SpecJSON == InitErr /\ [][NextJSON]_vars

(* C24: when WriteJSON cannot marshal the value the response has status    *)
(* 500, body {"error":"server_error"} and Content-Type application/json,   *)
(* also when the request holds no Logger; when it can, the status is 200,  *)
(* the Content-Type is application/json and the body is the JSON encoding  *)
(* followed by a newline.                                                  *)
WriteJSONResponds ==
    reply.op = "WriteJSON" =>
        /\ ~reply.panicked
        /\ reply.w.header["Content-Type"] = "application/json"
        /\ IF reply.v = ChanValue
           THEN /\ reply.w.code = StatusInternalServerError
                /\ reply.w.body = <<"{", "\"error\":\"server_error\"", "}">>
           ELSE /\ reply.w.code = StatusOK
                /\ reply.w.body = MarshalContext(reply.v).b \o <<"\n">>

----------------------------------------------------------------------------
(* WithLog on a request whose Logger was stored by the application         *)

\* the contexts the application bound to the Logger it stored
StoredContexts ==
    {NilContext, NewLogContext("tx0", "abc", "op1", "svc1", ""),
     ByValue(NewLogContext("tx0", "abc", "op1", "svc1", ""))}

InitBound ==
    /\ defaultLogLevel \in {debugLevel, infoLevel, warnLevel}
    /\ clock = 0
    /\ logLevel = defaultLogLevel
    /\ context \in StoredContexts
    /\ out = <<>>
    /\ mutex = 0
    /\ call = NoCall
    /\ ThreadsIdle
    /\ ErrIdle
    /\ ExtIdle
    /\ pc = "arrived"
    /\ chain = <<"WithLog">>
    /\ \E values \in {<<>>, <<"abc">>} : req = [inbound |-> values, header |-> values]
    /\ stored = TRUE
    /\ tmpl = EmptyLogContext
    /\ rw = NewRecorder
    /\ lw = StatusOK
    /\ start = 0
    /\ hops = 0
    /\ lastTrans = ""
    /\ uuids = 0

NextBound ==
    \/ \E ok \in BOOLEAN : WithLogEnter(ok)
    \/ \E code \in {201, 404} : HandlerWriteHeader(code)
    \/ HandlerWrite
    \/ HandlerReturn
    \/ HandlerPanic
    \/ Tick
    \/ WithLogExit

SpecBound == InitBound /\ [][NextBound]_vars

(* C25: WithLog completes normally for any Logger found in the request,    *)
(* also one whose bound context is absent or is not a Context: the request *)
(* is never aborted.                                                       *)
StoredLoggerNeverAborts ==
    (stored /\ chain = <<"WithLog">>) => pc # "aborted"

----------------------------------------------------------------------------
(* SetWriter while goroutines emit: Logger.out is an interface value, two  *)
(* words that SetWriter stores without any synchronisation.  A read of     *)
(* l.out that runs while the store is in progress is a data race: it may   *)
(* see the old sink, the new sink, or one word of each.                    *)

\* the goroutine that calls SetWriter
Setter == NThreads + 1

\* Logger.SetWriter, line 105: the store to l.out begins
SetWriterBegin ==
    /\ spc = "idle"
    /\ spc' = "storing"
    /\ UNCHANGED <<defaultLogLevel, clock, loggerVars, call, threadVars, errVars, reqVars>>
    /\ UNCHANGED <<loggers, heap, rctx, rpc, pipeVars, lout, out2>>

\* Logger.SetWriter, line 105: the store to l.out is complete
SetWriterEnd ==
    /\ spc = "storing"
    /\ lout' = 2
    /\ spc' = "done"
    /\ UNCHANGED <<defaultLogLevel, clock, loggerVars, call, threadVars, errVars, reqVars>>
    /\ UNCHANGED <<loggers, heap, rctx, rpc, pipeVars, out2>>

\* Logger.log, line 126: l.out.Write(bytes) reads l.out and writes the record to
\* the sink read; target is what the read of l.out gave
LogWriteSink(t, target) ==
    /\ tpc[t] = "write"
    /\ tbuf[t] # <<>>
    /\ IF spc = "storing" THEN target \in {"old", "new", "torn"}
       ELSE target = (IF lout = 1 THEN "old" ELSE "new")
    /\ out' = IF target = "old" THEN out \o tbuf[t] ELSE out
    /\ out2' = IF target = "new" THEN out2 \o tbuf[t] ELSE out2
    /\ tbuf' = [tbuf EXCEPT ![t] = <<>>]
    /\ tpc' = IF target = "torn" THEN [tpc EXCEPT ![t] = "crashed"] ELSE tpc
    /\ UNCHANGED <<defaultLogLevel, clock, logLevel, context, mutex, call, tk, errVars, reqVars>>
    /\ UNCHANGED <<loggers, heap, rctx, rpc, pipeVars, lout, spc>>

NextSink ==
    \/ \E t \in Threads : LogCompose(t) \/ LogLock(t) \/ LogUnlock(t)
    \/ \E t \in Threads, target \in {"old", "new", "torn"} : LogWriteSink(t, target)
    \/ SetWriterBegin
    \/ SetWriterEnd

SpecSink == InitConc /\ [][NextSink]_vars

(* C27: every read and every write of the Logger's sink reference is made  *)
(* while holding the Logger's mutex: SetWriter holds it while it stores    *)
(* l.out, so no emission reads l.out during the store and no emission      *)
(* fails on a half-stored reference.                                       *)
SinkReferenceGuarded ==
    /\ spc = "storing" => mutex = Setter
    /\ \A t \in Threads : tpc[t] = "write" => mutex = t
    /\ \A t \in Threads : tpc[t] # "crashed"

----------------------------------------------------------------------------
(* Concurrent emission under a fair scheduler: while some goroutine can    *)
(* take a step of Logger.log, one of them eventually does, and the sink's  *)
(* Write returns.                                                          *)
FairConc == SpecConc /\ WF_vars(NextConc)

(* C29: the mutex is held only around the sink write: no goroutine holds   *)
(* it when its emit call has returned, a goroutine is inside the write     *)
(* only while holding it, and every emission started on the shared Logger  *)
(* eventually completes with the mutex free.                               *)
MutexScopedToWrite ==
    /\ [](\A t \in Threads : tpc[t] \in {"start", "lock"} => mutex # t)
    /\ [](\A t \in Threads : tpc[t] = "write" => mutex = t)
    /\ <>[](AllEmitted /\ mutex = 0)

\* every emission has returned, the mutex is free, thread 2 wrote first
MutexWitness ==
    /\ AllEmitted /\ mutex = 0
    /\ \A t \in Threads : tpc[t] = "start" /\ tbuf[t] = <<>>
    /\ Records(out)[1] = threadRecord(2, 1)

----------------------------------------------------------------------------
(* ReplyWithError on a Logger with a bound context: writeDoc writes the    *)
(* bound context's fields, then the per-call context's fields              *)

\* the contexts bound to the Logger of the request
AlarmContexts ==
    {NilContext, NewLogContext("t", "", "", "", ""), NewLogContext("t", "", "", "", "A0"),
     NewLogContext("", "", "", "", "A0")}

\* the values the alarm field takes in a record
AlarmValues == {"A0", "A1"}

\* ReplyWithError(w, r, err) on a request whose Logger has the context bound
DoReplyWithErrorBound(e) ==
    /\ LET r == replyWithError(NewRecorder, TRUE, <<>>, logLevel, context, clock, e)
       IN  /\ reply' = [op |-> "ReplyWithError", err |-> e, w |-> r.w,
                        panicked |-> r.panicked, hasLogger |-> TRUE, out |-> r.out]
           /\ out' = r.out
    /\ UNCHANGED <<extVars, defaultLogLevel, clock, logLevel, context, mutex, call>>
    /\ UNCHANGED <<threadVars, prev, reqVars>>

NextAlarm ==
    \/ \E c \in AlarmContexts : SetLogContext(c)
    \/ \E e \in ErrorValues : DoReplyWithErrorBound(e)

SpecAlarm == InitErr /\ [][NextAlarm]_vars

\* the number of fields of a record with the key
KeyCount(rec, key, values) ==
    Cardinality({i \in 1..Len(rec) : \E v \in values : rec[i] = Pair(key, JSONString(v))})

(* C28: no record holds the same key twice: whatever context is bound to   *)
(* the Logger and whatever context ReplyWithError attaches, a record that  *)
(* has the alarm key has it once.                                          *)
NoKeyTwice ==
    \A i \in 1..Len(Records(out)) : KeyCount(Records(out)[i], "alarm", AlarmValues) <= 1

====
